---- MODULE Spec2Model ----
(***************************************************************************)
(* The blog application of fs-b1-node-blog-app and its variants:           *)
(*   src/index.js               users, sessions, Google login, posts       *)
(*   src/unnamed/part_003       the same with another Google callback      *)
(*   src/unnamed/part_002:1-310 the phone (OTP) registration variant       *)
(*   src/unnamed/part_001       posts only, no users and no route guard    *)
(*   src/unnamed/part_002:311-  posts kept in a process-wide array         *)
(* Each variant is a program of its own and has a specification of its own *)
(* over the same variables; a variable a variant does not have keeps its   *)
(* initial value.  One action is one request handler, or, for a handler    *)
(* with two storage calls, one of its two parts.                           *)
(***************************************************************************)
EXTENDS Naturals, Sequences, FiniteSets, TLC

VARIABLES
    users,      \* the users collection, in insertion order; a document's _id is its position
    session,    \* session[c]: the user id passport serialized into client c's session, 0 if none
    pc,         \* pc[c]: the request of client c that is suspended at a storage call
    last,       \* the request answered by the last step, with its response
    regLog,     \* regLog[u]: the statuses POST /register answered for username u, oldest first
    blogs,      \* the blogs collection, in insertion order (its natural order)
    nextBlogId, \* the number of blog documents created so far
    data,       \* the in-memory variant's array of posts
    OTP_STORE   \* the phone variant's pending challenges, by phone

vars == <<users, session, pc, last, regLog, blogs, nextBlogId, data, OTP_STORE>>

(***************************************************************************)
(* Requests: the values the handlers are tried on.                         *)
(***************************************************************************)
Clients == {"c1", "c2"}

\* "" is an empty or missing form field (falsy in JavaScript).
Usernames == {"alice", "bob"}
Passwords == {"pw1", "pw2"}
Salts == {"s1", "s2"}

\* Provider profiles: g1's display name is also a username people register.
Profiles ==
    { [id |-> "g1", displayName |-> "alice"],
      [id |-> "g2", displayName |-> "carol"] }

\* Phones that start a registration, and the challenge codes Math.random
\* is tried on: the least and the greatest six-digit number.
Phones == {"+15550001", "+15550002"}
OtpMin == 100000
OtpMax == 999999
OtpCodes == {OtpMin, OtpMax}
\* The password a registration by phone is started with.
OtpPasswords == {"pw1"}

\* Titles and contents around the schema's minimum lengths.
Titles == {"", "Nineteen characters", "Twenty characters ok"}
Contents ==
    { "012345678901234567890123456789012345678901234567890123456789012345678901234567890123456789012345678",
      "0123456789012345678901234567890123456789012345678901234567890123456789012345678901234567890123456789" }

\* How many posts are created.
MaxBlogs == 3

\* A :deleteId that does not cast to an ObjectId; the ids tried on delete.
MalformedId == 0
DeleteIds == 0..MaxBlogs

LoginUsernames == Usernames \cup {p.displayName : p \in Profiles} \cup {""}

\* regLog keeps the answers to the first MaxAttempts requests of a username.
MaxAttempts == 2

(***************************************************************************)
(* Values.                                                                 *)
(***************************************************************************)
\* A path of a document that was never set: MongoDB indexes it as null.
Null == "null"
\* user.password of a document saved without one (undefined in JavaScript).
NoPassword == <<>>

Idle == [at |-> "idle"]

\* bcrypt.genSalt + bcrypt.hash: the hash carries its salt.
BcryptHash(password, salt) == <<salt, password>>

\* bcrypt.compare(s, hash) rejects ("Illegal arguments") unless both are strings.
BcryptCompareThrows(password, hash) == hash = NoPassword

\* bcrypt.compare(s, hash): hashes s with the salt the hash carries.
BcryptCompare(password, hash) ==
    /\ hash # NoPassword
    /\ hash = BcryptHash(password, hash[1])

(***************************************************************************)
(* The users collection (userSchema and its unique indexes).               *)
(***************************************************************************)
UserIds == 1..Len(users)

\* new User({ username, password: hash }): googleId is not set.
NewLocalUser(username, hash) ==
    [username |-> username, password |-> hash, googleId |-> Null,
     phone |-> Null, isPhoneVerified |-> Null]

\* new User({ username: profile.displayName, googleId: profile.id }).
NewGoogleUser(profile) ==
    [username |-> profile.displayName, password |-> NoPassword,
     googleId |-> profile.id, phone |-> Null, isPhoneVerified |-> Null]

\* User.findOne({ username }): the id of the first match, 0 if none.
FindByUsername(username) ==
    IF \E i \in UserIds : users[i].username = username
    THEN CHOOSE i \in UserIds :
            /\ users[i].username = username
            /\ \A j \in UserIds : users[j].username = username => i <= j
    ELSE 0

\* User.findOne({ googleId: profile.id }).
FindByGoogleId(gid) ==
    IF \E i \in UserIds : users[i].googleId = gid
    THEN CHOOSE i \in UserIds :
            /\ users[i].googleId = gid
            /\ \A j \in UserIds : users[j].googleId = gid => i <= j
    ELSE 0

\* username: { required: true }.
UsernameRequiredFails(doc) == doc.username = "" \/ doc.username = Null

\* username: { unique: true }: the unique index on username.
UsernameIndexRejects(doc) == \E i \in UserIds : users[i].username = doc.username

\* googleId: { unique: true }: the unique index on googleId is not sparse, so
\* a document without a googleId is indexed under null like any other value.
GoogleIdIndexRejects(doc) == \E i \in UserIds : users[i].googleId = doc.googleId

\* user.save() with the unique index on username missing.
SaveUserResultNoUsernameIndex(doc) ==
    IF UsernameRequiredFails(doc) THEN "ValidationError"
    ELSE IF GoogleIdIndexRejects(doc) THEN "E11000"
    ELSE "ok"

\* user.save() under index.js's userSchema: "ok" or the error it rejects with.
SaveUserResult(doc) ==
    IF UsernameRequiredFails(doc) THEN "ValidationError"
    ELSE IF UsernameIndexRejects(doc) \/ GoogleIdIndexRejects(doc) THEN "E11000"
    ELSE "ok"

(***************************************************************************)
(* Sessions (express-session + passport).                                  *)
(***************************************************************************)
\* req.isAuthenticated(): deserializeUser found the session's user.
ReqIsAuthenticated(c) == session[c] \in UserIds

\* passport.authenticate's success: req.logIn(user), then successRedirect.
LogIn(c, id) == session' = [session EXCEPT ![c] = id]

\* What the client received: res.redirect(location) is a 302 with a Location,
\* res.status(n).json({ error | message }) a status with a JSON text.
\* res.render("Blogs", { blogs }) passes `blogs` to the template: nothing
\* (no render), an array of documents or a string.
NoRender == [type |-> "none", text |-> "", items |-> <<>>]
JsArray(docs) == [type |-> "array", text |-> "", items |-> docs]
JsText(text) == [type |-> "string", text |-> text, items |-> <<>>]

Redirect(c, route, location) ==
    [client |-> c, route |-> route, status |-> 302, location |-> location,
     json |-> "", blogs |-> NoRender]

Json(c, route, status, text) ==
    [client |-> c, route |-> route, status |-> status, location |-> "",
     json |-> text, blogs |-> NoRender]

\* res.render(view, { ..., blogs }): a 200 page.
Rendered(c, route, list) ==
    [client |-> c, route |-> route, status |-> 200, location |-> "",
     json |-> "", blogs |-> list]

\* An error passed to next(err): express's own handler answers 500.
ServerError(c, route) == Json(c, route, 500, "Internal Server Error")

\* The log with one more answer, while it has room.
Logged(log, key, status) ==
    IF key \in DOMAIN log /\ Len(log[key]) < MaxAttempts
    THEN [log EXCEPT ![key] = Append(@, status)]
    ELSE log

(***************************************************************************)
(* index.js: POST /register.  bcrypt.genSalt and bcrypt.hash touch nothing *)
(* shared; the handler's one storage call is newUser.save().               *)
(***************************************************************************)
Register(c, username, password) ==
    /\ pc[c] = Idle
    /\ \E salt \in Salts :
         LET doc == NewLocalUser(username, BcryptHash(password, salt))
         IN IF SaveUserResult(doc) = "ok"
            THEN /\ users' = Append(users, doc)
                 /\ last' = Redirect(c, "POST /register", "/login")
            ELSE /\ users' = users
                 /\ last' = Json(c, "POST /register", 400, "User registration failed!")
    /\ regLog' = Logged(regLog, username, last'.status)
    /\ UNCHANGED <<session, pc, blogs, nextBlogId, data, OTP_STORE>>

(***************************************************************************)
(* index.js: POST /login, passport-local with the LocalStrategy callback.  *)
(***************************************************************************)
\* The verify callback's outcome: "user", "fail" (done(null, false)) or
\* "error" (done(err)).
LocalVerify(username, password) ==
    LET id == FindByUsername(username)
    IN IF id = 0 THEN "fail"
       ELSE IF BcryptCompareThrows(password, users[id].password) THEN "error"
       ELSE IF ~BcryptCompare(password, users[id].password) THEN "fail"
       ELSE "user"

Login(c, username, password) ==
    /\ pc[c] = Idle
    /\ LET \* passport-local answers "Missing credentials" without calling verify
           outcome == IF username = "" \/ password = "" THEN "fail"
                      ELSE LocalVerify(username, password)
       IN CASE outcome = "user" ->
                 /\ LogIn(c, FindByUsername(username))
                 /\ last' = Redirect(c, "POST /login", "/compose")
            [] outcome = "fail" ->
                 /\ last' = Redirect(c, "POST /login", "/login")
                 /\ UNCHANGED session
            [] OTHER ->
                 /\ last' = ServerError(c, "POST /login")
                 /\ UNCHANGED session
    /\ UNCHANGED <<users, pc, regLog, blogs, nextBlogId, data, OTP_STORE>>

(***************************************************************************)
(* index.js: GET /auth/google/success, the GoogleStrategy callback.  It    *)
(* has two storage calls, User.findOne and user.save; other requests run   *)
(* between them.                                                           *)
(***************************************************************************)
GoogleFindOne(c, profile) ==
    /\ pc[c] = Idle
    /\ LET id == FindByGoogleId(profile.id)
       IN IF id # 0
          THEN /\ LogIn(c, id)
               /\ last' = Redirect(c, "GET /auth/google/success", "/compose")
               /\ UNCHANGED pc
          ELSE /\ pc' = [pc EXCEPT ![c] = [at |-> "google.save", profile |-> profile]]
               /\ UNCHANGED <<session, last>>
    /\ UNCHANGED <<users, regLog, blogs, nextBlogId, data, OTP_STORE>>

GoogleSave(c) ==
    /\ pc[c].at = "google.save"
    /\ LET profile == pc[c].profile
           doc == NewGoogleUser(profile)
       IN IF SaveUserResult(doc) = "ok"
          THEN /\ users' = Append(users, doc)
               /\ LogIn(c, Len(users) + 1)
               /\ last' = Redirect(c, "GET /auth/google/success", "/compose")
          ELSE \* cb(err): passport passes the error on, express answers 500
               /\ last' = ServerError(c, "GET /auth/google/success")
               /\ UNCHANGED <<users, session>>
    /\ pc' = [pc EXCEPT ![c] = Idle]
    /\ UNCHANGED <<regLog, blogs, nextBlogId, data, OTP_STORE>>

(***************************************************************************)
(* part_003: the GoogleStrategy callback that calls cb only in the branch  *)
(* that created the user.  For a stored provider id the callback returns   *)
(* without calling cb: passport never resumes the request.                 *)
(***************************************************************************)
\* A request that is never answered.
NoResponse(c, route) ==
    [client |-> c, route |-> route, status |-> 0, location |-> "", json |-> "",
     blogs |-> NoRender]

GoogleFindOneDefect(c, profile) ==
    /\ pc[c] = Idle
    /\ LET id == FindByGoogleId(profile.id)
       IN IF id # 0
          THEN /\ last' = NoResponse(c, "GET /auth/google/success")
               /\ UNCHANGED <<session, pc>>
          ELSE /\ pc' = [pc EXCEPT ![c] = [at |-> "google.save", profile |-> profile]]
               /\ UNCHANGED <<session, last>>
    /\ UNCHANGED <<users, regLog, blogs, nextBlogId, data, OTP_STORE>>

(***************************************************************************)
(* part_002:1-310, the phone variant.  Its userSchema adds a required      *)
(* phone and isPhoneVerified (default false); OTP_STORE holds the pending  *)
(* challenges in memory.                                                   *)
(***************************************************************************)
\* JavaScript values of req.body.otp: express.json() yields a number for a
\* JSON number, the form parser a string of digits; value is the number read.
JsNumber(n) == [type |-> "number", value |-> n]
JsString(n) == [type |-> "string", value |-> n]
JsMissing == [type |-> "undefined", value |-> 0]

\* The values POST /verify-otp is tried on.
OtpSubmitted ==
    {JsNumber(n) : n \in OtpCodes} \cup {JsString(n) : n \in OtpCodes} \cup {JsMissing}

\* a === b: the same type and the same value.
StrictEquals(a, b) == a.type = b.type /\ a.value = b.value

\* new User({ username, password: hash, phone }): isPhoneVerified takes the
\* schema's default.
IsPhoneVerifiedDefault == FALSE

NewOtpUser(username, hash, phone) ==
    [username |-> username, password |-> hash, googleId |-> Null,
     phone |-> phone, isPhoneVerified |-> IsPhoneVerifiedDefault]

\* phone: { required: true }.
PhoneRequiredFails(doc) == doc.phone = "" \/ doc.phone = Null

\* user.save() under the phone variant's userSchema.
SaveUserResultPhone(doc) ==
    IF UsernameRequiredFails(doc) \/ PhoneRequiredFails(doc) THEN "ValidationError"
    ELSE IF UsernameIndexRejects(doc) \/ GoogleIdIndexRejects(doc) THEN "E11000"
    ELSE "ok"

\* OTP_STORE[phone], when there is one.
Pending(phone) == phone \in DOMAIN OTP_STORE

\* OTP_STORE[phone] = entry.
StorePut(store, phone, entry) ==
    [ph \in DOMAIN store \cup {phone} |-> IF ph = phone THEN entry ELSE store[ph]]

\* delete OTP_STORE[phone].
StoreDelete(store, phone) == [ph \in DOMAIN store \ {phone} |-> store[ph]]

\* POST /send-otp.  The challenge is stored before the message is sent;
\* whether client.messages.create resolves is up to the messaging service.
SendOtp(c, phone, username, password) ==
    /\ pc[c] = Idle
    /\ IF phone = "" \/ username = "" \/ password = ""
       THEN /\ last' = Json(c, "POST /send-otp", 400, "All fields are required")
            /\ UNCHANGED OTP_STORE
       ELSE \E code \in OtpCodes, delivered \in BOOLEAN :
              /\ OTP_STORE' = StorePut(OTP_STORE, phone,
                                 [otp |-> JsNumber(code), username |-> username,
                                  password |-> password])
              /\ last' = IF delivered
                         THEN Redirect(c, "POST /send-otp", "/verify-otp?phone")
                         ELSE Json(c, "POST /send-otp", 500, "Failed to send OTP")
    /\ UNCHANGED <<users, session, pc, regLog, blogs, nextBlogId, data>>

\* POST /verify-otp deleting the challenge it was tried against on a mismatch.
VerifyOtpCheckConsumes(c, phone, otp) ==
    /\ pc[c] = Idle
    /\ IF phone = "" \/ otp = JsMissing
       THEN /\ last' = Json(c, "POST /verify-otp", 400, "Phone and OTP are required")
            /\ UNCHANGED <<pc, OTP_STORE>>
       ELSE IF Pending(phone) /\ StrictEquals(OTP_STORE[phone].otp, otp)
       THEN /\ pc' = [pc EXCEPT ![c] =
                        [at |-> "verify.save", phone |-> phone,
                         username |-> OTP_STORE[phone].username,
                         password |-> OTP_STORE[phone].password]]
            /\ UNCHANGED <<last, OTP_STORE>>
       ELSE /\ last' = Json(c, "POST /verify-otp", 400, "Invalid OTP")
            /\ OTP_STORE' = StoreDelete(OTP_STORE, phone)
            /\ UNCHANGED pc
    /\ UNCHANGED <<users, session, regLog, blogs, nextBlogId, data>>

\* POST /verify-otp up to its first await: the check of the code, and the
\* username and password taken from the store on a match.
VerifyOtpCheck(c, phone, otp) ==
    /\ pc[c] = Idle
    /\ IF phone = "" \/ otp = JsMissing
       THEN /\ last' = Json(c, "POST /verify-otp", 400, "Phone and OTP are required")
            /\ UNCHANGED pc
       ELSE IF Pending(phone) /\ StrictEquals(OTP_STORE[phone].otp, otp)
       THEN /\ pc' = [pc EXCEPT ![c] =
                        [at |-> "verify.save", phone |-> phone,
                         username |-> OTP_STORE[phone].username,
                         password |-> OTP_STORE[phone].password]]
            /\ UNCHANGED last
       ELSE /\ last' = Json(c, "POST /verify-otp", 400, "Invalid OTP")
            /\ UNCHANGED pc
    /\ UNCHANGED <<users, session, regLog, blogs, nextBlogId, data, OTP_STORE>>

\* What the client gets when the handler's promise rejects: the handler has
\* no try/catch, so express 4 never answers and express 5 answers 500.  (A
\* Node that ends the process on an unhandled rejection is not modelled.)
Rejections == {"unanswered", "500"}

\* POST /verify-otp from newUser.save() on: save, delete the challenge, 200.
VerifyOtpSave(c) ==
    /\ pc[c].at = "verify.save"
    /\ \E salt \in Salts, rejection \in Rejections :
         LET doc == NewOtpUser(pc[c].username,
                               BcryptHash(pc[c].password, salt), pc[c].phone)
         IN IF SaveUserResultPhone(doc) = "ok"
            THEN /\ users' = Append(users, doc)
                 /\ OTP_STORE' = StoreDelete(OTP_STORE, pc[c].phone)
                 /\ last' = Json(c, "POST /verify-otp", 200, "User registered successfully")
            ELSE /\ last' = IF rejection = "500"
                            THEN ServerError(c, "POST /verify-otp")
                            ELSE NoResponse(c, "POST /verify-otp")
                 /\ UNCHANGED <<users, OTP_STORE>>
    /\ pc' = [pc EXCEPT ![c] = Idle]
    /\ UNCHANGED <<session, regLog, blogs, nextBlogId, data>>

\* req.session.isPhoneVerified: no handler of the variant sets it.
SessionIsPhoneVerified(c) == FALSE

\* new User({ username, password: hash, phone, isPhoneVerified: true }).
NewVerifiedUser(username, hash, phone) ==
    [username |-> username, password |-> hash, googleId |-> Null,
     phone |-> phone, isPhoneVerified |-> TRUE]

\* The phone variant's POST /register.
RegisterPhone(c, username, password, phone) ==
    /\ pc[c] = Idle
    /\ IF ~SessionIsPhoneVerified(c)
       THEN /\ last' = Json(c, "POST /register", 400, "Phone number not verified")
            /\ UNCHANGED users
       ELSE \E salt \in Salts :
              LET doc == NewVerifiedUser(username, BcryptHash(password, salt), phone)
                  result == SaveUserResultPhone(doc)
              IN IF result = "ok"
                 THEN /\ users' = Append(users, doc)
                      /\ last' = Redirect(c, "POST /register", "/login")
                 ELSE /\ users' = users
                      /\ last' = Json(c, "POST /register", 400,
                                      IF result = "E11000"
                                      THEN "Username already exists!"
                                      ELSE "User registration failed!")
    /\ UNCHANGED <<session, pc, regLog, blogs, nextBlogId, data, OTP_STORE>>

(***************************************************************************)
(* The blogs collection (blogSchema) and index.js's /compose, /blogs and   *)
(* /delete/:deleteId, each behind isAuthenticated.                         *)
(***************************************************************************)
MinTitleLength == 20
MinContentLength == 100

\* newBlog.save() rejects: title and content are required (not empty) and
\* have a minLength.
BlogValidationFails(title, content) ==
    \/ title = ""
    \/ Len(title) < MinTitleLength
    \/ content = ""
    \/ Len(content) < MinContentLength

\* new Blog({ title, content }) with the next _id.
NewBlog(title, content) == [id |-> nextBlogId + 1, title |-> title, content |-> content]

\* The collection without the document of this id, and without its oldest
\* document when no document has this id.
WithoutIdOrOldest(docs, id) ==
    IF \E i \in 1..Len(docs) : docs[i].id = id
    THEN SelectSeq(docs, LAMBDA d : d.id # id)
    ELSE IF Len(docs) > 0 THEN Tail(docs) ELSE docs

\* The collection without the document of this id, if it has one.
WithoutId(docs, id) ==
    LET keep == {i \in 1..Len(docs) : docs[i].id # id}
        \* the position in docs of the k-th document kept
        at(k) == CHOOSE i \in keep : Cardinality({j \in keep : j <= i}) = k
    IN [k \in 1..Cardinality(keep) |-> docs[at(k)]]

\* The collection as it is, the empty one too.
BlogsAsFound(docs) == JsArray(docs)

\* blogs.length > 0 ? blogs : "No Blogs Found".
BlogsOrSentinel(docs) ==
    IF Len(docs) > 0 THEN JsArray(docs) ELSE JsText("No Blogs Found")

\* isAuthenticated: next() when req.isAuthenticated(), else redirect /login.
IsAuthenticated(c) == ReqIsAuthenticated(c)

Compose(c, title, content) ==
    /\ pc[c] = Idle
    /\ IF ~IsAuthenticated(c)
       THEN /\ last' = Redirect(c, "POST /compose", "/login")
            /\ UNCHANGED <<blogs, nextBlogId>>
       ELSE IF BlogValidationFails(title, content)
       THEN /\ last' = Json(c, "POST /compose", 400, "Failed to create blog post!")
            /\ UNCHANGED <<blogs, nextBlogId>>
       ELSE /\ nextBlogId < MaxBlogs
            /\ blogs' = Append(blogs, NewBlog(title, content))
            /\ nextBlogId' = nextBlogId + 1
            /\ last' = Redirect(c, "POST /compose", "/blogs")
    /\ UNCHANGED <<users, session, pc, regLog, data, OTP_STORE>>

Blogs(c) ==
    /\ pc[c] = Idle
    /\ IF ~IsAuthenticated(c)
       THEN last' = Redirect(c, "GET /blogs", "/login")
       ELSE last' = Rendered(c, "GET /blogs", BlogsOrSentinel(blogs))
    /\ UNCHANGED <<users, session, pc, regLog, blogs, nextBlogId, data, OTP_STORE>>

\* Blog.findByIdAndDelete rejects (CastError) on an id that is no ObjectId
\* and resolves, to the document or to null, on any other.
Delete(c, id) ==
    /\ pc[c] = Idle
    /\ IF ~IsAuthenticated(c)
       THEN /\ last' = Redirect(c, "GET /delete/:deleteId", "/login")
            /\ UNCHANGED blogs
       ELSE IF id = MalformedId
       THEN /\ last' = Json(c, "GET /delete/:deleteId", 400, "Failed to delete blog!")
            /\ UNCHANGED blogs
       ELSE /\ blogs' = WithoutId(blogs, id)
            /\ last' = Redirect(c, "GET /delete/:deleteId", "/blogs")
    /\ UNCHANGED <<users, session, pc, regLog, nextBlogId, data, OTP_STORE>>

(***************************************************************************)
(* part_001: the same three routes with no session and no guard.  Its      *)
(* catch blocks call res.json(...).status(400): the body is sent, with the *)
(* status still 200, before status(400) runs.                              *)
(***************************************************************************)
ComposeNoAuth(c, title, content) ==
    /\ IF BlogValidationFails(title, content)
       THEN /\ last' = Json(c, "POST /compose", 200,
                            "Something went wrong while creating new blog")
            /\ UNCHANGED <<blogs, nextBlogId>>
       ELSE /\ nextBlogId < MaxBlogs
            /\ blogs' = Append(blogs, NewBlog(title, content))
            /\ nextBlogId' = nextBlogId + 1
            /\ last' = Redirect(c, "POST /compose", "/blogs")
    /\ UNCHANGED <<users, session, pc, regLog, data, OTP_STORE>>

BlogsNoAuth(c) ==
    /\ last' = Rendered(c, "GET /blogs", BlogsOrSentinel(blogs))
    /\ UNCHANGED <<users, session, pc, regLog, blogs, nextBlogId, data, OTP_STORE>>

DeleteNoAuth(c, id) ==
    /\ IF id = MalformedId
       THEN /\ last' = Json(c, "GET /delete/:deleteId", 200,
                            "Something went wrong while fetching blogs from db")
            /\ UNCHANGED blogs
       ELSE /\ blogs' = WithoutId(blogs, id)
            /\ last' = Redirect(c, "GET /delete/:deleteId", "/blogs")
    /\ UNCHANGED <<users, session, pc, regLog, nextBlogId, data, OTP_STORE>>

(***************************************************************************)
(* part_002:311-362: posts in the array `data`, no schema, no session, no  *)
(* delete route.                                                           *)
(***************************************************************************)
\* data.push({ id: uuidv4(), ...req.body }).
ComposeMemory(c, title, content) ==
    /\ nextBlogId < MaxBlogs
    /\ data' = Append(data, NewBlog(title, content))
    /\ nextBlogId' = nextBlogId + 1
    /\ last' = Redirect(c, "POST /compose", "/blogs")
    /\ UNCHANGED <<users, session, pc, regLog, blogs, OTP_STORE>>

BlogsMemory(c) ==
    /\ last' = Rendered(c, "GET /blogs", BlogsOrSentinel(data))
    /\ UNCHANGED <<users, session, pc, regLog, blogs, nextBlogId, data, OTP_STORE>>

(***************************************************************************)
(* The state after construction: empty collections, no session.            *)
(***************************************************************************)
NoRequest ==
    [client |-> "", route |-> "", status |-> 0, location |-> "", json |-> "",
     blogs |-> NoRender]

Init ==
    /\ users = <<>>
    /\ session = [c \in Clients |-> 0]
    /\ pc = [c \in Clients |-> Idle]
    /\ last = NoRequest
    /\ regLog = [u \in Usernames |-> <<>>]
    /\ blogs = <<>>
    /\ nextBlogId = 0
    /\ data = <<>>
    /\ OTP_STORE = [ph \in {} |-> <<>>]

\* index.js, users and sessions.
NextMain ==
    \/ \E c \in Clients, u \in Usernames \cup {""}, p \in Passwords : Register(c, u, p)
    \/ \E c \in Clients, u \in LoginUsernames, p \in Passwords \cup {""} : Login(c, u, p)
    \/ \E c \in Clients, profile \in Profiles : GoogleFindOne(c, profile)
    \/ \E c \in Clients : GoogleSave(c)

SpecMain == Init /\ [][NextMain]_vars

\* part_003, users and sessions: its /register, /login and the save of its
\* GoogleStrategy callback are index.js's.
NextDefect ==
    \/ \E c \in Clients, u \in Usernames \cup {""}, p \in Passwords : Register(c, u, p)
    \/ \E c \in Clients, u \in LoginUsernames, p \in Passwords \cup {""} : Login(c, u, p)
    \/ \E c \in Clients, profile \in Profiles : GoogleFindOneDefect(c, profile)
    \/ \E c \in Clients : GoogleSave(c)

SpecDefect == Init /\ [][NextDefect]_vars

\* index.js, sessions and posts: the posts' routes read of the users only
\* whether the session is bound to one, so sessions come from /register and
\* /login here.
ContentUsernames == {"alice"}

NextContent ==
    \/ \E c \in Clients, u \in ContentUsernames, p \in Passwords : Register(c, u, p)
    \/ \E c \in Clients, u \in ContentUsernames, p \in Passwords : Login(c, u, p)
    \/ \E c \in Clients, t \in Titles, ct \in Contents : Compose(c, t, ct)
    \/ \E c \in Clients : Blogs(c)
    \/ \E c \in Clients, id \in DeleteIds : Delete(c, id)

SpecContent == Init /\ [][NextContent]_vars

\* part_001.
NextNoAuth ==
    \/ \E c \in Clients, t \in Titles, ct \in Contents : ComposeNoAuth(c, t, ct)
    \/ \E c \in Clients : BlogsNoAuth(c)
    \/ \E c \in Clients, id \in DeleteIds : DeleteNoAuth(c, id)

SpecNoAuth == Init /\ [][NextNoAuth]_vars

\* part_002:311-362.
NextMemory ==
    \/ \E c \in Clients, t \in Titles, ct \in Contents : ComposeMemory(c, t, ct)
    \/ \E c \in Clients : BlogsMemory(c)

SpecMemory == Init /\ [][NextMemory]_vars

\* part_002:1-310, the registration by phone: /send-otp, /verify-otp and
\* /register.
NextOtp ==
    \/ \E c \in Clients, ph \in Phones \cup {""}, u \in Usernames, p \in OtpPasswords :
          SendOtp(c, ph, u, p)
    \/ \E c \in Clients, ph \in Phones \cup {""}, otp \in OtpSubmitted :
          VerifyOtpCheck(c, ph, otp)
    \/ \E c \in Clients : VerifyOtpSave(c)
    \/ \E c \in Clients, u \in Usernames, p \in OtpPasswords, ph \in Phones :
          RegisterPhone(c, u, p, ph)

SpecOtp == Init /\ [][NextOtp]_vars

(***************************************************************************)
(* Claims about index.js's users and sessions (SpecMain).                  *)
(***************************************************************************)
\* The documents with this username.
WithUsername(u) == {i \in UserIds : users[i].username = u}

\* C1: whatever the users collection holds, POST /register with a valid
\* (username, password) whose username is not stored creates the user and
\* redirects to /login, and POST /login with the pair of a stored user
\* redirects to /compose with the session bound to that user.
C1_RegisterThenLogin ==
    [][ /\ \A c \in Clients, u \in Usernames, p \in Passwords :
              (Register(c, u, p) /\ FindByUsername(u) = 0) =>
                  /\ last' = Redirect(c, "POST /register", "/login")
                  /\ \E i \in 1..Len(users') :
                        /\ users'[i].username = u
                        /\ BcryptCompare(p, users'[i].password)
        /\ \A c \in Clients, u \in Usernames, p \in Passwords :
              (/\ Login(c, u, p)
               /\ FindByUsername(u) # 0
               /\ BcryptCompare(p, users[FindByUsername(u)].password)) =>
                  /\ last' = Redirect(c, "POST /login", "/compose")
                  /\ session'[c] = FindByUsername(u)
      ]_vars

\* C2: once POST /register has been answered twice for a username that no
\* provider login took, one answer is the redirect of a created user, the
\* other the 400 of a uniqueness violation, and one document has the username.
C2_SameUsernameTwice ==
    \A u \in Usernames :
        (/\ Len(regLog[u]) >= 2
         /\ \A i \in WithUsername(u) : users[i].googleId = Null) =>
            /\ {regLog[u][1], regLog[u][2]} = {302, 400}
            /\ Cardinality(WithUsername(u)) = 1

\* C3: POST /login with the username of a stored document, however it was
\* created, and a password that is not the one registered for it redirects
\* to /login and leaves the session as it was.
C3_WrongPasswordFails ==
    [][ \A c \in Clients, u \in LoginUsernames \ {""}, p \in Passwords :
            (/\ Login(c, u, p)
             /\ FindByUsername(u) # 0
             /\ ~BcryptCompare(p, users[FindByUsername(u)].password)) =>
                /\ last' = Redirect(c, "POST /login", "/login")
                /\ session' = session
      ]_vars

\* C10: no two user documents share a username, no two share a provider id,
\* and every user document has a username or a provider id.
C10_UsersUniquelyAddressable ==
    /\ \A i, j \in UserIds : i # j => users[i].username # users[j].username
    /\ \A i, j \in UserIds :
          (i # j /\ users[i].googleId # Null) => users[i].googleId # users[j].googleId
    /\ \A i \in UserIds :
          users[i].username \notin {"", Null} \/ users[i].googleId # Null

\* A local user and two provider users are stored, and the save of a
\* provider login that raced another was rejected.
C10_Witness ==
    /\ Len(users) = 3
    /\ \E i \in UserIds : users[i].googleId = Null
    /\ last.route = "GET /auth/google/success"
    /\ last.status = 500

(***************************************************************************)
(* Claims about the provider login (SpecDefect).                           *)
(***************************************************************************)
\* C6: a provider login whose provider id is stored completes with the
\* session bound to the stored user; one whose provider id is not stored
\* creates the user (username = display name, no password) and completes
\* with the session bound to the new user.
C6_ProviderLoginAuthenticates ==
    [][ /\ \A c \in Clients, profile \in Profiles :
              (/\ GoogleFindOne(c, profile) \/ GoogleFindOneDefect(c, profile)
               /\ FindByGoogleId(profile.id) # 0) =>
                  /\ last' = Redirect(c, "GET /auth/google/success", "/compose")
                  /\ session'[c] = FindByGoogleId(profile.id)
        /\ \A c \in Clients :
              GoogleSave(c) =>
                  /\ last' = Redirect(c, "GET /auth/google/success", "/compose")
                  /\ session'[c] \in 1..Len(users')
                  /\ users'[session'[c]] = NewGoogleUser(pc[c].profile)
      ]_vars

(***************************************************************************)
(* Claims about the registration by phone (SpecOtp).                       *)
(***************************************************************************)
\* C7: POST /verify-otp with a phone and the number stored as its challenge
\* code is accepted, and, the challenge still being the one it was checked
\* against, its save adds one user with the held username and a hash of the
\* held password, removes the phone's challenge and answers 200.
C7_CorrectCodeCreatesUser ==
    [][ /\ \A c \in Clients, phone \in Phones, n \in OtpCodes :
              (/\ VerifyOtpCheck(c, phone, JsNumber(n))
               /\ Pending(phone)
               /\ OTP_STORE[phone].otp = JsNumber(n)) =>
                  /\ pc'[c].at = "verify.save"
                  /\ pc'[c].username = OTP_STORE[phone].username
        /\ \A c \in Clients :
              (/\ VerifyOtpSave(c)
               /\ Pending(pc[c].phone)
               /\ OTP_STORE[pc[c].phone].username = pc[c].username
               /\ OTP_STORE[pc[c].phone].password = pc[c].password) =>
                  /\ Len(users') = Len(users) + 1
                  /\ users'[Len(users')].username = pc[c].username
                  /\ BcryptCompare(pc[c].password, users'[Len(users')].password)
                  /\ pc[c].phone \notin DOMAIN OTP_STORE'
                  /\ last' = Json(c, "POST /verify-otp", 200, "User registered successfully")
      ]_vars

\* The submitted code is not the phone's challenge code, or the phone has
\* no challenge.
WrongCode(phone, otp) ==
    ~Pending(phone) \/ otp.value # OTP_STORE[phone].otp.value

\* C8: POST /verify-otp with a code that is not the phone's challenge code,
\* or with a phone that has no challenge, answers 400, creates no user,
\* schedules no save and leaves every challenge as it was, each time.
C8_WrongCodeChangesNothing ==
    [][ \A c \in Clients, phone \in Phones \cup {""}, otp \in OtpSubmitted :
            (VerifyOtpCheck(c, phone, otp) /\ WrongCode(phone, otp)) =>
                /\ last'.client = c
                /\ last'.route = "POST /verify-otp"
                /\ last'.status = 400
                /\ users' = users
                /\ OTP_STORE' = OTP_STORE
                /\ pc' = pc
      ]_vars

\* A wrong code was answered "Invalid OTP" while both phones have a
\* challenge and no user exists.
C8_Witness ==
    /\ last.route = "POST /verify-otp"
    /\ last.status = 400
    /\ last.json = "Invalid OTP"
    /\ DOMAIN OTP_STORE = Phones
    /\ users = <<>>

\* C9: the user a successful /verify-otp adds has isPhoneVerified = true.
C9_OtpUserIsVerified ==
    [][ \A c \in Clients :
            (VerifyOtpSave(c) /\ Len(users') = Len(users) + 1) =>
                users'[Len(users')].isPhoneVerified = TRUE
      ]_vars

(***************************************************************************)
(* Claims about the posts (SpecMemory, SpecNoAuth).                        *)
(***************************************************************************)
ShortPost(doc) ==
    Len(doc.title) < MinTitleLength \/ Len(doc.content) < MinContentLength

\* C4: no stored post has a title shorter than 20 or a content shorter
\* than 100, and no page of posts shows one.
C4_NoShortPostStored ==
    /\ \A i \in 1..Len(blogs) : ~ShortPost(blogs[i])
    /\ \A i \in 1..Len(data) : ~ShortPost(data[i])
    /\ \A i \in 1..Len(last.blogs.items) : ~ShortPost(last.blogs.items[i])

\* C5: POST /compose and GET /delete/:id of a client whose session is not
\* authenticated redirect to /login and leave the posts as they were; the
\* posts change only by the request of an authenticated session.
C5_MutationNeedsAuthentication ==
    [][ /\ \A c \in Clients, t \in Titles, ct \in Contents :
              (/\ Compose(c, t, ct) \/ ComposeNoAuth(c, t, ct) \/ ComposeMemory(c, t, ct)
               /\ ~ReqIsAuthenticated(c)) =>
                  /\ last' = Redirect(c, "POST /compose", "/login")
                  /\ blogs' = blogs
                  /\ data' = data
        /\ \A c \in Clients, id \in DeleteIds :
              (/\ Delete(c, id) \/ DeleteNoAuth(c, id)
               /\ ~ReqIsAuthenticated(c)) =>
                  /\ last' = Redirect(c, "GET /delete/:deleteId", "/login")
                  /\ blogs' = blogs
        /\ (blogs' # blogs \/ data' # data) =>
              (last'.client \in Clients /\ ReqIsAuthenticated(last'.client))
      ]_vars

(***************************************************************************)
(* Claims about deleting and listing posts in index.js (SpecContent).      *)
(***************************************************************************)
NoPostHasId(id) == \A i \in 1..Len(blogs) : blogs[i].id # id

\* C11: GET /delete/:id of an authenticated session with a well-formed id
\* that no stored post has leaves the posts as they were, the same number
\* and the same posts, and answers with the redirect to /blogs that a
\* delete of a stored post answers with.
C11_DeleteOfAbsentIdChangesNothing ==
    [][ \A c \in Clients, id \in DeleteIds :
          (Delete(c, id) /\ ReqIsAuthenticated(c) /\ id # MalformedId) =>
              /\ last' = Redirect(c, "GET /delete/:deleteId", "/blogs")
              /\ NoPostHasId(id) => (Len(blogs') = Len(blogs) /\ blogs' = blogs)
      ]_vars

\* C11 as stated, for every id that no stored post has, the ids that do not
\* cast to an ObjectId included: the posts stay and the answer is the
\* redirect to /blogs.
C11_AnyAbsentIdRedirects ==
    [][ \A c \in Clients, id \in DeleteIds :
          (Delete(c, id) /\ ReqIsAuthenticated(c) /\ NoPostHasId(id)) =>
              /\ blogs' = blogs
              /\ last' = Redirect(c, "GET /delete/:deleteId", "/blogs")
      ]_vars

\* A delete was answered with the redirect to /blogs while posts are stored
\* and no post has ever been removed: its id was the id of no stored post.
C11_Witness ==
    /\ nextBlogId > 0
    /\ Len(blogs) = nextBlogId
    /\ \E c \in Clients : last = Redirect(c, "GET /delete/:deleteId", "/blogs")

ListAnswered == last.route = "GET /blogs" /\ last.status = 200

\* C12: a page of GET /blogs shows the text "No Blogs Found" exactly when no
\* post is stored and otherwise shows all stored posts, in their order: one
\* post after the first valid post was created, the text again after that
\* post was deleted.
C12_ListIsSentinelIffEmpty ==
    ListAnswered =>
        /\ last.blogs.type \in {"string", "array"}
        /\ last.blogs.type = "string" <=> Len(blogs) = 0
        /\ last.blogs.type = "string" => last.blogs.text = "No Blogs Found"
        /\ last.blogs.type = "array" => last.blogs.items = blogs
        /\ (nextBlogId = 1 /\ Len(blogs) = 1) =>
               (Len(last.blogs.items) = 1 /\ last.blogs.items[1].id = 1)

\* One post was created and deleted, and the page shows the text.
C12_Witness ==
    /\ ListAnswered
    /\ nextBlogId = 1
    /\ Len(blogs) = 0
    /\ last.blogs = JsText("No Blogs Found")

(***************************************************************************)
(* Claims about the failures of the posts' handlers (SpecNoAuth).          *)
(***************************************************************************)
\* What a handler whose storage call failed has to answer with.
FailureAnswered == last'.status = 400 /\ last'.json # "" /\ blogs' = blogs

\* C13: in index.js and in part_001, a create whose post the schema rejects
\* and a delete whose id the collection rejects are answered with status 400
\* and a JSON message, and the posts stay as they were.
C13_FailureAnswers400 ==
    [][ /\ \A c \in Clients, t \in Titles, ct \in Contents :
              (/\ BlogValidationFails(t, ct)
               /\ \/ Compose(c, t, ct) /\ ReqIsAuthenticated(c)
                  \/ ComposeNoAuth(c, t, ct)) => FailureAnswered
        /\ \A c \in Clients :
              (\/ Delete(c, MalformedId) /\ ReqIsAuthenticated(c)
               \/ DeleteNoAuth(c, MalformedId)) => FailureAnswered
      ]_vars

(***************************************************************************)
(* Claims about the failures of the OTP handlers (SpecOtp).                *)
(***************************************************************************)
\* C14: every POST /verify-otp is answered.  The step that checks the code
\* answers 400 or goes on to the save, and the step that saves ends the
\* request with an answer of status 200 or of an error status; when it
\* answers with an error status, no user was created.
C14_VerifyOtpIsAnswered ==
    [][ /\ \A c \in Clients, ph \in Phones \cup {""}, otp \in OtpSubmitted :
              VerifyOtpCheck(c, ph, otp) =>
                  \/ pc'[c].at = "verify.save"
                  \/ last' = Json(c, "POST /verify-otp", 400, last'.json)
        /\ \A c \in Clients :
              VerifyOtpSave(c) =>
                  /\ pc'[c] = Idle
                  /\ last'.client = c
                  /\ last'.route = "POST /verify-otp"
                  /\ last'.status \in {200, 400, 500}
                  /\ last'.status # 200 => users' = users
      ]_vars

\* C15: a POST /send-otp answered with 500, the delivery of the code having
\* failed, leaves OTP_STORE as it was before the request.
C15_FailedSendLeavesNoChallenge ==
    [][ \A c \in Clients, ph \in Phones \cup {""}, u \in Usernames, p \in OtpPasswords :
          (SendOtp(c, ph, u, p) /\ last'.status = 500) => OTP_STORE' = OTP_STORE
      ]_vars

====
